---- MODULE Spec2Model ----
(***************************************************************************)
(* Model of the satellite lookup of axum-test-server                       *)
(* (src/src/satellites.rs): the handler get_satellite_from_norad_id, the  *)
(* Borsh decoding of the fixed Satellite layout, and the padded-text      *)
(* helper Satellite::get_string_from_padded_bytes.                        *)
(*                                                                         *)
(* Representation.  A byte is a number in 0..255 and a buffer a sequence  *)
(* of bytes.  TLC's integers are 32 bits wide, so every machine integer   *)
(* wider than 31 bits (u32, u64, usize) is kept as the sequence of its    *)
(* little-endian bytes and computed on byte by byte with carries.  A Rust *)
(* String is the sequence of its Unicode scalar values; a &str of the     *)
(* request path is a sequence of one-character strings.                   *)
(***************************************************************************)
EXTENDS Integers, Sequences, FiniteSets, TLC

----------------------------------------------------------------------------
(* Bytes and little-endian machine integers                                *)

\* n copies of x.
Repeat(x, n) == [i \in 1..n |-> x]

Zeros(n) == Repeat(0, n)

\* n.to_le_bytes() for a number n below 2^31, w bytes wide.
LeBytes(n, w) == [i \in 1..w |-> IF i <= 4 THEN (n \div (256 ^ (i - 1))) % 256 ELSE 0]

\* x > y for two little-endian integers of the same width.
RECURSIVE LeGt(_, _, _)
LeGt(x, y, i) ==
    IF i = 0 THEN FALSE
    ELSE IF x[i] # y[i] THEN x[i] > y[i]
    ELSE LeGt(x, y, i - 1)

\* Wrapping addition of two little-endian integers of the same width:
\* the carry out of the top byte is dropped.
RECURSIVE LeAddFrom(_, _, _, _)
LeAddFrom(x, y, i, carry) ==
    IF i > Len(x) THEN <<>>
    ELSE LET t == x[i] + y[i] + carry
         IN <<t % 256>> \o LeAddFrom(x, y, i + 1, t \div 256)

\* Width of usize in bytes on the 64-bit targets the service is built for and
\* deployed on.
USIZE_BYTES == 8

U32_BYTES == 4

\* u32::from_le_bytes(bytes[0..4]): the four bytes are the value.
u32_from_le_bytes(b) == SubSeq(b, 1, U32_BYTES)

\* `as usize` of a u32: zero extension to the width of usize.
as_usize(x) == x \o Zeros(USIZE_BYTES - Len(x))

\* A small usize back as a number (only used once it is known to be at most
\* the length of a buffer).
usize_to_nat(x) == x[1] + 256 * x[2] + 65536 * x[3]

\* x > n for a usize x and a buffer length n.
usize_gt(x, n) == LeGt(x, LeBytes(n, Len(x)), Len(x))

\* Faulty variant of data_end: the sum computed in a 32-bit usize, wrapping.
data_end_wrap32(len) ==
    LeAddFrom(SubSeq(len, 1, U32_BYTES), LeBytes(4, U32_BYTES), 1, 0)
        \o Zeros(Len(len) - U32_BYTES)

\* Faulty variant of data_end: the four prefix bytes are not counted.
data_end_no_prefix(len) == len

\* let data_end = 4 + len;
data_end(len) == LeAddFrom(len, LeBytes(4, Len(len)), 1, 0)

----------------------------------------------------------------------------
(* Text: UTF-8 encoding and String::from_utf8_lossy                        *)

REPLACEMENT_CHARACTER == 65533

\* safe_get of the lossy decoder: the byte at 1-based index j, 0 past the end.
SafeGet(b, j) == IF j <= Len(b) THEN b[j] ELSE 0

IsCont(x) == x \in 128..191

\* utf8_char_width of a lead byte (0: not a lead byte).
Utf8CharWidth(x) ==
    IF x < 128 THEN 1
    ELSE IF x \in 194..223 THEN 2
    ELSE IF x \in 224..239 THEN 3
    ELSE IF x \in 240..244 THEN 4
    ELSE 0

\* The second byte of a three-byte sequence is in the range its lead allows.
Second3Ok(lead, x) ==
    \/ lead = 224 /\ x \in 160..191
    \/ lead \in 225..236 /\ x \in 128..191
    \/ lead = 237 /\ x \in 128..159
    \/ lead \in 238..239 /\ x \in 128..191

\* The second byte of a four-byte sequence is in the range its lead allows.
Second4Ok(lead, x) ==
    \/ lead = 240 /\ x \in 144..191
    \/ lead \in 241..243 /\ x \in 128..191
    \/ lead = 244 /\ x \in 128..143

\* One step of the lossy decoder at index i: the scalar value produced and the
\* number of bytes consumed.  An invalid sequence yields U+FFFD and consumes
\* its maximal valid prefix (at least the lead byte).
NextChar(b, i) ==
    LET b0 == b[i]
        b1 == SafeGet(b, i + 1)
        b2 == SafeGet(b, i + 2)
        b3 == SafeGet(b, i + 3)
        w  == Utf8CharWidth(b0)
        Bad(n) == [cp |-> REPLACEMENT_CHARACTER, used |-> n]
    IN  CASE w = 1 -> [cp |-> b0, used |-> 1]
          [] w = 2 -> IF IsCont(b1)
                      THEN [cp |-> (b0 % 32) * 64 + (b1 % 64), used |-> 2]
                      ELSE Bad(1)
          [] w = 3 -> IF ~Second3Ok(b0, b1) THEN Bad(1)
                      ELSE IF ~IsCont(b2) THEN Bad(2)
                      ELSE [cp |-> (b0 % 16) * 4096 + (b1 % 64) * 64 + (b2 % 64),
                            used |-> 3]
          [] w = 4 -> IF ~Second4Ok(b0, b1) THEN Bad(1)
                      ELSE IF ~IsCont(b2) THEN Bad(2)
                      ELSE IF ~IsCont(b3) THEN Bad(3)
                      ELSE [cp |-> (b0 % 8) * 262144 + (b1 % 64) * 4096
                                    + (b2 % 64) * 64 + (b3 % 64),
                            used |-> 4]
          [] OTHER -> Bad(1)

RECURSIVE LossyFrom(_, _)
LossyFrom(b, i) ==
    IF i > Len(b) THEN <<>>
    ELSE LET r == NextChar(b, i) IN <<r.cp>> \o LossyFrom(b, i + r.used)

\* String::from_utf8_lossy(bytes).to_string()
from_utf8_lossy(b) == LossyFrom(b, 1)

\* The UTF-8 encoding of one Unicode scalar value.
Utf8EncodeChar(c) ==
    IF c < 128 THEN <<c>>
    ELSE IF c < 2048 THEN <<192 + (c \div 64), 128 + (c % 64)>>
    ELSE IF c < 65536
         THEN <<224 + (c \div 4096), 128 + ((c \div 64) % 64), 128 + (c % 64)>>
    ELSE <<240 + (c \div 262144), 128 + ((c \div 4096) % 64),
           128 + ((c \div 64) % 64), 128 + (c % 64)>>

\* s.as_bytes(): the UTF-8 encoding of a String.
RECURSIVE as_bytes(_)
as_bytes(s) == IF s = <<>> THEN <<>> ELSE Utf8EncodeChar(Head(s)) \o as_bytes(Tail(s))

----------------------------------------------------------------------------
(* Satellite::get_string_from_padded_bytes                                 *)

\* Capacity of a #[max_len(30)] String and the width of its padded slot.
MAX_LEN == 30

PADDED_LEN == 34

\* The outcome of a Rust expression that may panic.
Returned(v) == [panic |-> FALSE, val |-> v]

Panicked == [panic |-> TRUE, val |-> <<>>]

\* &bytes[lo..hi] (0-based, hi exclusive): panics when lo > hi or hi > len.
SliceRange(b, lo, hi) ==
    IF lo <= hi /\ hi <= Len(b) THEN Returned(SubSeq(b, lo + 1, hi)) ELSE Panicked

\* &bytes[lo..]
SliceFrom(b, lo) == SliceRange(b, lo, Len(b))

\* from_utf8_lossy applied to a slice expression: a panic of the slice
\* expression propagates.
LossyOf(sl) == IF sl.panic THEN Panicked ELSE Returned(from_utf8_lossy(sl.val))

get_string_from_padded_bytes(bytes) ==
    IF Len(bytes) < 4 THEN Returned(<<>>)
    ELSE LET len == as_usize(u32_from_le_bytes(bytes))
             de  == data_end(len)
         IN  IF usize_gt(de, Len(bytes))
             THEN LossyOf(SliceFrom(bytes, 4))
             ELSE LossyOf(SliceRange(bytes, 4, usize_to_nat(de)))

\* The wire form of a #[max_len(30)] String as the producer writes it: the
\* 4-byte little-endian length, the bytes, zero padding up to 34 bytes.
PaddedEncode(s) ==
    LET b == as_bytes(s)
    IN  LeBytes(Len(b), U32_BYTES) \o b \o Zeros(MAX_LEN - Len(b))

----------------------------------------------------------------------------
(* Parsing the path parameters                                             *)

\* The outcome of a Rust expression of type Result.
Ok(v) == [ok |-> TRUE, val |-> v]

Err(e) == [ok |-> FALSE, val |-> e]

Digits == <<"0", "1", "2", "3", "4", "5", "6", "7", "8", "9">>

\* char::to_digit(10): the digit's value, or -1 for any other character.
ToDigit(c) ==
    IF \E i \in 1..Len(Digits) : Digits[i] = c
    THEN (CHOOSE i \in 1..Len(Digits) : Digits[i] = c) - 1
    ELSE -1

\* x * m + a for a little-endian integer x and small m, a, over the bytes
\* i..j of x: the bytes of the result, and the carry out of byte j.
RECURSIVE LeMulAddRange(_, _, _, _, _)
LeMulAddRange(x, m, i, j, carry) ==
    IF i > j THEN [bytes |-> <<>>, carry |-> carry]
    ELSE LET t    == x[i] * m + carry
             rest == LeMulAddRange(x, m, i + 1, j, t \div 256)
         IN  [bytes |-> <<t % 256>> \o rest.bytes, carry |-> rest.carry]

\* The same from byte i to the top byte of x, in runs of eight bytes: the
\* bytes of the result at the width of x, and the carry out of the top byte.
RECURSIVE LeMulAddFrom(_, _, _, _)
LeMulAddFrom(x, m, i, carry) ==
    IF i > Len(x) THEN [bytes |-> <<>>, carry |-> carry]
    ELSE LET j    == IF i + 7 < Len(x) THEN i + 7 ELSE Len(x)
             r    == LeMulAddRange(x, m, i, j, carry)
             rest == LeMulAddFrom(x, m, j + 1, r.carry)
         IN  [bytes |-> r.bytes \o rest.bytes, carry |-> rest.carry]

U64_BYTES == 8

\* The digit loop of u64::from_str: result.checked_mul(10) then
\* checked_add(digit), failing on a non-digit and on overflow.
RECURSIVE ParseDigits(_, _, _)
ParseDigits(src, i, acc) ==
    IF i > Len(src) THEN Ok(acc)
    ELSE LET d == ToDigit(src[i])
         IN  IF d < 0 THEN Err("InvalidDigit")
             ELSE LET r == LeMulAddFrom(acc, 10, 1, d)
                  IN  IF r.carry # 0 THEN Err("PosOverflow")
                      ELSE ParseDigits(src, i + 1, r.bytes)

\* norad_id_str.parse::<u64>(): an optional leading "+", then at least one
\* decimal digit, the value at most 2^64 - 1.  The value is returned as its
\* eight little-endian bytes.
parse_u64(src) ==
    IF src = <<>> THEN Err("Empty")
    ELSE IF Len(src) = 1 /\ src[1] \in {"+", "-"} THEN Err("InvalidDigit")
    ELSE IF src[1] = "+" THEN ParseDigits(Tail(src), 1, Zeros(U64_BYTES))
    ELSE ParseDigits(src, 1, Zeros(U64_BYTES))

PUBKEY_BYTES == 32

MAX_BASE58_LEN == 44

Bs58Alphabet ==
    << "1", "2", "3", "4", "5", "6", "7", "8", "9",
       "A", "B", "C", "D", "E", "F", "G", "H", "J", "K", "L", "M", "N", "P",
       "Q", "R", "S", "T", "U", "V", "W", "X", "Y", "Z",
       "a", "b", "c", "d", "e", "f", "g", "h", "i", "j", "k", "m", "n", "o",
       "p", "q", "r", "s", "t", "u", "v", "w", "x", "y", "z" >>

\* The value of a base-58 digit, or -1 for a character outside the alphabet.
Bs58Value(c) ==
    IF \E i \in 1..Len(Bs58Alphabet) : Bs58Alphabet[i] = c
    THEN (CHOOSE i \in 1..Len(Bs58Alphabet) : Bs58Alphabet[i] = c) - 1
    ELSE -1

RECURSIVE Spill(_)
Spill(v) == IF v = 0 THEN <<>> ELSE <<v % 256>> \o Spill(v \div 256)

Reverse(s) == [i \in 1..Len(s) |-> s[Len(s) + 1 - i]]

\* input.iter().take_while(|c| c == '1').count()
LeadingOnes(s) ==
    Cardinality({i \in 1..Len(s) : \A j \in 1..i : s[j] = "1"})

\* The digit loop of bs58::decode over the digits i..j of s: the number so
\* far, little-endian and without leading zero bytes, is multiplied by 58 and
\* the digit added.
RECURSIVE Bs58DigitsTo(_, _, _, _)
Bs58DigitsTo(s, i, j, out) ==
    IF i > j THEN Ok(out)
    ELSE LET d == Bs58Value(s[i])
         IN  IF d < 0 THEN Err("InvalidCharacter")
             ELSE LET r == LeMulAddFrom(out, 58, 1, d)
                  IN  Bs58DigitsTo(s, i + 1, j, r.bytes \o Spill(r.carry))

\* The same loop run over s in runs of eight digits.
RECURSIVE Bs58Digits(_, _, _)
Bs58Digits(s, i, out) ==
    IF i > Len(s) THEN Ok(out)
    ELSE LET j == IF i + 7 < Len(s) THEN i + 7 ELSE Len(s)
             r == Bs58DigitsTo(s, i, j, out)
         IN  IF ~r.ok THEN r ELSE Bs58Digits(s, j + 1, r.val)

\* bs58::decode(s).into_vec(): one zero byte for every leading "1", then the
\* big-endian bytes of the number.
bs58_decode(s) ==
    LET r == Bs58Digits(s, 1, <<>>)
    IN  IF ~r.ok THEN r ELSE Ok(Reverse(r.val \o Zeros(LeadingOnes(s))))

\* Pubkey::from_str(s)
Pubkey_from_str(s) ==
    IF Len(s) > MAX_BASE58_LEN THEN Err("WrongSize")
    ELSE LET r == bs58_decode(s)
         IN  IF ~r.ok THEN Err("Invalid")
             ELSE IF Len(r.val) # PUBKEY_BYTES THEN Err("WrongSize")
             ELSE Ok(r.val)

----------------------------------------------------------------------------
(* Borsh decoding of the Satellite layout                                  *)

\* Variants in declaration order; the wire tag of a variant is its index.
OperationStatus == <<"Active", "Maintenance", "Offline">>

ManeuverType ==
    << "StationKeeping", "OrbitRaising", "OrbitLowering", "InclinationChange",
       "PhaseAdjustment", "CollisionAvoidance", "EndOfLife", "Desaturation" >>

\* The fields of struct Satellite in declaration order, with their wire width.
Layout ==
    << [name |-> "owner",            kind |-> "bytes", width |-> 32],
       [name |-> "name",             kind |-> "bytes", width |-> 34],
       [name |-> "country",          kind |-> "bytes", width |-> 34],
       [name |-> "norad_id",         kind |-> "int",   width |-> 8],
       [name |-> "launch_date",      kind |-> "int",   width |-> 8],
       [name |-> "mint_date",        kind |-> "int",   width |-> 8],
       [name |-> "orbit_type",       kind |-> "bytes", width |-> 34],
       [name |-> "inclination",      kind |-> "f64",   width |-> 8],
       [name |-> "altitude",         kind |-> "f64",   width |-> 8],
       [name |-> "semi_major_axis",  kind |-> "f64",   width |-> 8],
       [name |-> "eccentricity",     kind |-> "f64",   width |-> 8],
       [name |-> "raan",             kind |-> "f64",   width |-> 8],
       [name |-> "arg_of_periapsis", kind |-> "f64",   width |-> 8],
       [name |-> "maneuver_type",    kind |-> "ManeuverType",    width |-> 1],
       [name |-> "operation_status", kind |-> "OperationStatus", width |-> 1] >>

\* The wire width of the first n fields.
RECURSIVE WidthOfFirst(_)
WidthOfFirst(n) == IF n = 0 THEN 0 ELSE WidthOfFirst(n - 1) + Layout[n].width

\* f64::is_nan of the value whose little-endian bytes are b: the exponent
\* bits are all ones and the mantissa is not zero.
is_nan(b) ==
    /\ (b[8] % 128) * 16 + (b[7] \div 16) = 2047
    /\ \/ b[7] % 16 # 0
       \/ \E i \in 1..6 : b[i] # 0

\* Faulty variant of enum_from_tag: an unknown tag becomes the first variant.
enum_from_tag_default(variants, tag) ==
    IF tag < Len(variants) THEN Ok(variants[tag + 1]) ELSE Ok(variants[1])

\* The derived BorshDeserialize of a field-less enum: the u8 tag selects the
\* variant, an unknown tag is an error.
enum_from_tag(variants, tag) ==
    IF tag < Len(variants) THEN Ok(variants[tag + 1]) ELSE Err("UnexpectedVariantTag")

\* The value of one field from its bytes.  Borsh reads an f64 from its bits
\* and refuses a NaN ("For portability reasons we do not allow to deserialize
\* NaNs."); byte arrays and integers take any bytes.
DeserializeField(kind, raw) ==
    CASE kind = "f64" -> IF is_nan(raw) THEN Err("NaN") ELSE Ok(raw)
      [] kind = "ManeuverType" -> enum_from_tag(ManeuverType, raw[1])
      [] kind = "OperationStatus" -> enum_from_tag(OperationStatus, raw[1])
      [] OTHER -> Ok(raw)

\* The derived BorshDeserialize::deserialize of Satellite: the fields are read
\* in order from offset off on; a field the buffer is too short for, or one
\* whose bytes are no value of its type, ends the decoding with an error.  On
\* success the record and the offset after the last field are returned.
RECURSIVE DeserializeFields(_, _, _, _)
DeserializeFields(buf, off, i, acc) ==
    IF i > Len(Layout) THEN Ok([record |-> acc, consumed |-> off])
    ELSE LET f == Layout[i]
         IN  IF off + f.width > Len(buf) THEN Err("UnexpectedLengthOfInput")
             ELSE LET v == DeserializeField(f.kind, SubSeq(buf, off + 1, off + f.width))
                  IN  IF ~v.ok THEN v
                      ELSE DeserializeFields(buf, off + f.width, i + 1,
                                             (f.name :> v.val) @@ acc)

deserialize(buf) == DeserializeFields(buf, 0, 1, <<>>)

\* Faulty variant of try_from_slice: bytes left after the last field are
\* ignored.
try_from_slice_prefix(v) ==
    LET r == deserialize(v) IN IF ~r.ok THEN r ELSE Ok(r.val.record)

\* BorshDeserialize::try_from_slice: deserialize, then fail unless every byte
\* of the slice was read.
try_from_slice(v) ==
    LET r == deserialize(v)
    IN  IF ~r.ok THEN r
        ELSE IF r.val.consumed # Len(v) THEN Err("NotAllBytesRead")
        ELSE Ok(r.val.record)

name_as_string(account) == get_string_from_padded_bytes(account["name"])

country_as_string(account) == get_string_from_padded_bytes(account["country"])

orbit_type_as_string(account) == get_string_from_padded_bytes(account["orbit_type"])

\* impl From<Satellite> for SatelliteApiResponse: the three padded fields are
\* replaced by their text, the other fields are copied.  A panic of a helper
\* is a panic of the conversion.
SatelliteApiResponse_from(account) ==
    LET n == name_as_string(account)
        c == country_as_string(account)
        o == orbit_type_as_string(account)
    IN  IF n.panic \/ c.panic \/ o.panic THEN Panicked
        ELSE Returned([account EXCEPT !["name"] = n.val,
                                      !["country"] = c.val,
                                      !["orbit_type"] = o.val])

----------------------------------------------------------------------------
(* The service's configuration and the inputs of the model                 *)

ProgramIdStr ==
    << "F", "Z", "Q", "m", "S", "a", "m", "S", "J", "d", "t", "B", "9",
       "J", "K", "x", "b", "U", "H", "8", "2", "Z", "d", "R", "Q", "2",
       "U", "c", "q", "q", "B", "P", "G", "b", "y", "c", "e", "2", "Z",
       "d", "f", "v", "i", "N" >>

\* AppState.program_id
program_id == Pubkey_from_str(ProgramIdStr).val

\* The text of the system program's address: thirty-two "1", all bytes zero.
SystemProgramStr == Repeat("1", PUBKEY_BYTES)

NotANumber ==
    << "n", "o", "t", "-", "a", "-", "n", "u", "m", "b", "e", "r" >>

U64MaxStr ==
    << "1", "8", "4", "4", "6", "7", "4", "4", "0", "7", "3", "7", "0",
       "9", "5", "5", "1", "6", "1", "5" >>

U64OverStr ==
    << "1", "8", "4", "4", "6", "7", "4", "4", "0", "7", "3", "7", "0",
       "9", "5", "5", "1", "6", "1", "6" >>

\* Path parameters a caller may send: well-formed ones, and ones that fail
\* each check of the parsers (a character outside the alphabet, a wrong
\* decoded size, a text that is too long, an empty text, a sign, an overflow).
UserAuthorityStrs == {ProgramIdStr, <<"a", "b", "c">>, <<"0", "O">>}

RegistryAuthorityStrs == {SystemProgramStr, ProgramIdStr \o <<"1">>, <<>>}

NoradIdStrs ==
    {<<"4", "2">>, U64MaxStr, U64OverStr, NotANumber, <<"-", "1">>, <<>>}

\* Bytes of account data: the 8-byte account discriminator, then the record.
DISCRIMINATOR_LEN == 8

Discriminator == <<11, 22, 33, 44, 55, 66, 77, 88>>

F64One == <<0, 0, 0, 0, 0, 0, 240, 63>>

F64Infinity == <<0, 0, 0, 0, 0, 0, 240, 127>>

F64NaN == <<0, 0, 0, 0, 0, 0, 248, 127>>

\* "Sentinel-1", "India", "LEO"
SentinelName == <<83, 101, 110, 116, 105, 110, 101, 108, 45, 49>>

CountryName == <<73, 110, 100, 105, 97>>

OrbitName == <<76, 69, 79>>

\* A padded slot whose length prefix is corrupted and whose bytes are not
\* valid UTF-8.
CorruptSlot == <<255, 255, 255, 255, 83, 255>> \o Zeros(PADDED_LEN - 6)

\* The wire form of a Satellite with the given name slot, norad id, last
\* orbital parameter and enum tags.
MkRecord(nameSlot, norad, f, m, st) ==
    Repeat(7, PUBKEY_BYTES) \o nameSlot \o PaddedEncode(CountryName) \o norad
        \o LeBytes(1700000000, 8) \o LeBytes(1700000600, 8)
        \o PaddedEncode(OrbitName)
        \o F64One \o F64One \o F64One \o F64One \o F64One \o f
        \o <<m>> \o <<st>>

BaseRecord == MkRecord(PaddedEncode(SentinelName), LeBytes(42, 8), F64One, 0, 0)

RecordSamples ==
    { MkRecord(n, id, f, m, st) :
        n \in {PaddedEncode(SentinelName), CorruptSlot},
        id \in {LeBytes(42, 8), LeBytes(43, 8)},
        f \in {F64One, F64Infinity, F64NaN},
        m \in {0, 7, 8, 255},
        st \in {0, 2, 3} }

\* Most bytes an account may hold beyond the discriminator and the record.
MaxTrailing == 1

\* The size of the record: the sum of the widths of its fields.
LAYOUT_SIZE == WidthOfFirst(Len(Layout))

\* What the store may hold at an address: every prefix of a well-formed
\* account (the empty account included), every sample record at its exact
\* size, one byte short and with trailing bytes.
AccountDataSamples ==
    { SubSeq(Discriminator \o BaseRecord, 1, n) :
        n \in 0..(DISCRIMINATOR_LEN + LAYOUT_SIZE) }
    \cup { SubSeq(Discriminator \o r, 1, DISCRIMINATOR_LEN + LAYOUT_SIZE - 1) :
             r \in RecordSamples }
    \cup { Discriminator \o r \o Zeros(t) : r \in RecordSamples, t \in 0..MaxTrailing }

NOT_FOUND_PATTERN ==
    << "A", "c", "c", "o", "u", "n", "t", "N", "o", "t", "F", "o", "u",
       "n", "d" >>

\* The text of the error RpcClient::get_account makes of a reply without an
\* account: "AccountNotFound: pubkey=<address>".
MissingAccountText ==
    << "A", "c", "c", "o", "u", "n", "t", "N", "o", "t", "F", "o", "u",
       "n", "d", ":", " ", "p", "u", "b", "k", "e", "y", "=" >>

TimeoutText ==
    << "o", "p", "e", "r", "a", "t", "i", "o", "n", " ", "t", "i", "m",
       "e", "d", " ", "o", "u", "t" >>

RateLimitText ==
    << "4", "2", "9", " ", "T", "o", "o", " ", "M", "a", "n", "y", " ",
       "R", "e", "q", "u", "e", "s", "t", "s" >>

ConnectText ==
    << "e", "r", "r", "o", "r", " ", "s", "e", "n", "d", "i", "n", "g",
       " ", "r", "e", "q", "u", "e", "s", "t" >>

\* An error reply of the node whose message quotes "AccountNotFound".
UpstreamText ==
    << "R", "P", "C", " ", "r", "e", "s", "p", "o", "n", "s", "e", " ",
       "e", "r", "r", "o", "r", " ", "-", "3", "2", "6", "0", "3", ":",
       " ", "u", "p", "s", "t", "r", "e", "a", "m", " ", "A", "c", "c",
       "o", "u", "n", "t", "N", "o", "t", "F", "o", "u", "n", "d", " ",
       "h", "a", "n", "d", "l", "e", "r", " ", "f", "a", "i", "l", "e",
       "d" >>

\* The errors get_account may return: `missing` tells that the store replied
\* that no account exists at the address; every other error is a failure of
\* the transport or of the node, with a text the remote side chooses.
RpcErrors ==
    {[missing |-> TRUE, text |-> MissingAccountText]}
    \cup { [missing |-> FALSE, text |-> t] :
             t \in {TimeoutText, RateLimitText, ConnectText, UpstreamText} }

\* Every result of rpc_client.get_account(&pda_pubkey).
RpcResults ==
    { Ok([data |-> d]) : d \in AccountDataSamples } \cup { Err(e) : e \in RpcErrors }

\* str::contains: pat occurs in text as a contiguous run of characters.
contains(text, pat) ==
    \E i \in 1..(Len(text) - Len(pat) + 1) : SubSeq(text, i, i + Len(pat) - 1) = pat

\* Pubkey::find_program_address.  The hash is not computed: the derived
\* address is identified with the seeds and the program it is derived from.
find_program_address(seeds, program) == [seeds |-> seeds, program_id |-> program]

SATELLITE_SEED == <<"s", "a", "t", "e", "l", "l", "i", "t", "e">>

----------------------------------------------------------------------------
(* The handler get_satellite_from_norad_id                                 *)

VARIABLES
    pc,                         \* where the handler of the request in hand is
    user_authority_str,         \* the three path parameters
    registry_authority_str,
    norad_id_str,
    user_authority_pubkey,      \* the parsed parameters
    registry_authority_pubkey,
    norad_id,
    pda_pubkey,                 \* the derived address
    account,                    \* the result of get_account
    data_slice,                 \* &account.data[8..]
    response,                   \* what the caller receives
    fetches,                    \* calls of get_account made for the request
    previous,                   \* how the request before this one ended
    text_pc,                    \* the padded-text codec exercised on its own
    text,
    bytes,
    encoded,
    result

request_vars ==
    << pc, user_authority_str, registry_authority_str, norad_id_str,
       user_authority_pubkey, registry_authority_pubkey, norad_id, pda_pubkey,
       account, data_slice, response, fetches, previous >>

text_vars == <<text_pc, text, bytes, encoded, result>>

vars == <<request_vars, text_vars>>

NoPda == [seeds |-> <<>>, program_id |-> <<>>]

NoAccount == Err([missing |-> FALSE, text |-> <<>>])

NoResponse == [status |-> 0, body |-> <<>>]

NoPrevious == [kind |-> "None", status |-> 0, classified |-> TRUE, any |-> FALSE]

\* Err(StatusCode::...) and Ok(Json(body))
StatusOnly(code) == [status |-> code, body |-> <<>>]

BAD_REQUEST == 400

NOT_FOUND == 404

INTERNAL_SERVER_ERROR == 500

OK == 200

\* The request's locals before the handler has run.
Cleared ==
    /\ user_authority_pubkey' = <<>>
    /\ registry_authority_pubkey' = <<>>
    /\ norad_id' = <<>>
    /\ pda_pubkey' = NoPda
    /\ account' = NoAccount
    /\ data_slice' = <<>>
    /\ response' = NoResponse
    /\ fetches' = 0

\* A request arrives: axum extracts the three path parameters as Strings.
Receive ==
    /\ pc = "idle"
    /\ \E u \in UserAuthorityStrs, r \in RegistryAuthorityStrs, n \in NoradIdStrs :
         /\ user_authority_str' = u
         /\ registry_authority_str' = r
         /\ norad_id_str' = n
    /\ Cleared
    /\ pc' = "parse_user_authority"
    /\ UNCHANGED <<previous, text_vars>>

\* The handler returns Err(code).
ReturnErr(code) ==
    /\ response' = StatusOnly(code)
    /\ pc' = "done"

ParseUserAuthority ==
    /\ pc = "parse_user_authority"
    /\ LET r == Pubkey_from_str(user_authority_str)
       IN  IF r.ok
           THEN /\ user_authority_pubkey' = r.val
                /\ pc' = "parse_registry_authority"
                /\ UNCHANGED response
           ELSE /\ ReturnErr(BAD_REQUEST)
                /\ UNCHANGED user_authority_pubkey
    /\ UNCHANGED << user_authority_str, registry_authority_str, norad_id_str,
                    registry_authority_pubkey, norad_id, pda_pubkey, account,
                    data_slice, fetches, previous, text_vars >>

ParseRegistryAuthority ==
    /\ pc = "parse_registry_authority"
    /\ LET r == Pubkey_from_str(registry_authority_str)
       IN  IF r.ok
           THEN /\ registry_authority_pubkey' = r.val
                /\ pc' = "parse_norad_id"
                /\ UNCHANGED response
           ELSE /\ ReturnErr(BAD_REQUEST)
                /\ UNCHANGED registry_authority_pubkey
    /\ UNCHANGED << user_authority_str, registry_authority_str, norad_id_str,
                    user_authority_pubkey, norad_id, pda_pubkey, account,
                    data_slice, fetches, previous, text_vars >>

\* Faulty variant of ParseNoradId: a text that does not parse counts as 0.
ParseNoradIdOrZero ==
    /\ pc = "parse_norad_id"
    /\ LET r == parse_u64(norad_id_str)
       IN  norad_id' = IF r.ok THEN r.val ELSE Zeros(U64_BYTES)
    /\ pc' = "derive"
    /\ UNCHANGED << user_authority_str, registry_authority_str, norad_id_str,
                    user_authority_pubkey, registry_authority_pubkey, pda_pubkey,
                    account, data_slice, response, fetches, previous, text_vars >>

ParseNoradId ==
    /\ pc = "parse_norad_id"
    /\ LET r == parse_u64(norad_id_str)
       IN  IF r.ok
           THEN /\ norad_id' = r.val
                /\ pc' = "derive"
                /\ UNCHANGED response
           ELSE /\ ReturnErr(BAD_REQUEST)
                /\ UNCHANGED norad_id
    /\ UNCHANGED << user_authority_str, registry_authority_str, norad_id_str,
                    user_authority_pubkey, registry_authority_pubkey, pda_pubkey,
                    account, data_slice, fetches, previous, text_vars >>

\* norad_id.to_le_bytes(): the value is kept as these bytes.
to_le_bytes(x) == x

DerivePda ==
    /\ pc = "derive"
    /\ pda_pubkey' = find_program_address(
                         << SATELLITE_SEED, user_authority_pubkey,
                            registry_authority_pubkey, to_le_bytes(norad_id) >>,
                         program_id)
    /\ pc' = "get_account"
    /\ UNCHANGED << user_authority_str, registry_authority_str, norad_id_str,
                    user_authority_pubkey, registry_authority_pubkey, norad_id,
                    account, data_slice, response, fetches, previous, text_vars >>

\* Faulty variant of GetAccount: a failed call is made once more.
GetAccountRetrying ==
    /\ pc = "get_account"
    /\ \E first \in RpcResults, second \in RpcResults :
         IF first.ok
         THEN account' = first /\ fetches' = fetches + 1
         ELSE account' = second /\ fetches' = fetches + 2
    /\ pc' = "match"
    /\ UNCHANGED << user_authority_str, registry_authority_str, norad_id_str,
                    user_authority_pubkey, registry_authority_pubkey, norad_id,
                    pda_pubkey, data_slice, response, previous, text_vars >>

\* let account = app_state.rpc_client.get_account(&pda_pubkey): one blocking
\* call, whose result the remote store decides.
GetAccount ==
    /\ pc = "get_account"
    /\ \E res \in RpcResults : account' = res
    /\ fetches' = fetches + 1
    /\ pc' = "match"
    /\ UNCHANGED << user_authority_str, registry_authority_str, norad_id_str,
                    user_authority_pubkey, registry_authority_pubkey, norad_id,
                    pda_pubkey, data_slice, response, previous, text_vars >>

\* Ok(account) => let data_slice = &account.data[8..]: the slice expression
\* panics when the data is shorter than the discriminator.
SliceData ==
    /\ pc = "match"
    /\ account.ok
    /\ LET sl == SliceFrom(account.val.data, DISCRIMINATOR_LEN)
       IN  IF sl.panic
           THEN pc' = "panicked" /\ UNCHANGED data_slice
           ELSE pc' = "deserialize" /\ data_slice' = sl.val
    /\ UNCHANGED << user_authority_str, registry_authority_str, norad_id_str,
                    user_authority_pubkey, registry_authority_pubkey, norad_id,
                    pda_pubkey, account, response, fetches, previous, text_vars >>

\* try_from_slice(data_slice), mapped to 500 on error; on success the record
\* is converted and returned as Ok(Json(..)).
Deserialize ==
    /\ pc = "deserialize"
    /\ LET satellite_data == try_from_slice(data_slice)
           body == SatelliteApiResponse_from(satellite_data.val)
       IN  IF ~satellite_data.ok THEN ReturnErr(INTERNAL_SERVER_ERROR)
           ELSE IF body.panic THEN pc' = "panicked" /\ UNCHANGED response
           ELSE response' = [status |-> OK, body |-> body.val] /\ pc' = "done"
    /\ UNCHANGED << user_authority_str, registry_authority_str, norad_id_str,
                    user_authority_pubkey, registry_authority_pubkey, norad_id,
                    pda_pubkey, account, data_slice, fetches, previous, text_vars >>

\* Faulty variant of FetchFailed: an error other than a missing account is
\* blamed on the caller.
FetchFailedAsBadRequest ==
    /\ pc = "match"
    /\ ~account.ok
    /\ IF contains(account.val.text, NOT_FOUND_PATTERN)
       THEN ReturnErr(NOT_FOUND)
       ELSE ReturnErr(BAD_REQUEST)
    /\ UNCHANGED << user_authority_str, registry_authority_str, norad_id_str,
                    user_authority_pubkey, registry_authority_pubkey, norad_id,
                    pda_pubkey, account, data_slice, fetches, previous, text_vars >>

\* Err(e) => 404 when the error's text contains "AccountNotFound", else 500.
FetchFailed ==
    /\ pc = "match"
    /\ ~account.ok
    /\ IF contains(account.val.text, NOT_FOUND_PATTERN)
       THEN ReturnErr(NOT_FOUND)
       ELSE ReturnErr(INTERNAL_SERVER_ERROR)
    /\ UNCHANGED << user_authority_str, registry_authority_str, norad_id_str,
                    user_authority_pubkey, registry_authority_pubkey, norad_id,
                    pda_pubkey, account, data_slice, fetches, previous, text_vars >>

\* Whether each path parameter a caller may send parses (the empty text
\* stands for the parameters while no request is in hand).
UserAuthorityParses ==
    [u \in UserAuthorityStrs \cup {<<>>} |-> Pubkey_from_str(u).ok]

RegistryAuthorityParses ==
    [r \in RegistryAuthorityStrs \cup {<<>>} |-> Pubkey_from_str(r).ok]

NoradIdParses == [n \in NoradIdStrs \cup {<<>>} |-> parse_u64(n).ok]

\* The three parameters parse.
ValidInput ==
    /\ UserAuthorityParses[user_authority_str]
    /\ RegistryAuthorityParses[registry_authority_str]
    /\ NoradIdParses[norad_id_str]

\* The request in hand has made its call of get_account.
Fetched == fetches > 0

\* The fetched bytes are a record of the layout behind a discriminator.
WellFormed(data) ==
    /\ Len(data) >= DISCRIMINATOR_LEN
    /\ try_from_slice(SubSeq(data, DISCRIMINATOR_LEN + 1, Len(data))).ok

\* The failure of the request in hand, in the terms of the error taxonomy.
FailureKind ==
    IF ~ValidInput THEN "InvalidInput"
    ELSE IF ~Fetched THEN "None"
    ELSE IF ~account.ok
         THEN IF account.val.missing THEN "NotFound" ELSE "TransportError"
    ELSE IF ~WellFormed(account.val.data) THEN "MalformedRecord"
    ELSE "None"

\* The text of a fetch error agrees with what the store reported: it quotes
\* "AccountNotFound" exactly when the store replied that no account exists.
Classified ==
    (Fetched /\ ~account.ok)
        => (account.val.missing <=> contains(account.val.text, NOT_FOUND_PATTERN))

Ended == pc \in {"done", "panicked"}

\* The response is sent (or, after a panic, the task ends without one) and
\* the server waits for the next request.
Complete ==
    /\ Ended
    /\ previous' = [kind |-> FailureKind, status |-> response.status,
                    classified |-> Classified, any |-> TRUE]
    /\ pc' = "idle"
    /\ user_authority_str' = <<>>
    /\ registry_authority_str' = <<>>
    /\ norad_id_str' = <<>>
    /\ Cleared
    /\ UNCHANGED text_vars

\* The server is up and no request is in hand.
InitRequest ==
    /\ pc = "idle"
    /\ user_authority_str = <<>>
    /\ registry_authority_str = <<>>
    /\ norad_id_str = <<>>
    /\ user_authority_pubkey = <<>>
    /\ registry_authority_pubkey = <<>>
    /\ norad_id = <<>>
    /\ pda_pubkey = NoPda
    /\ account = NoAccount
    /\ data_slice = <<>>
    /\ response = NoResponse
    /\ fetches = 0
    /\ previous = NoPrevious

Init ==
    /\ InitRequest
    /\ text_pc = "off"
    /\ text = <<>>
    /\ bytes = <<>>
    /\ encoded = FALSE
    /\ result = Returned(<<>>)

Next ==
    \/ Receive
    \/ ParseUserAuthority
    \/ ParseRegistryAuthority
    \/ ParseNoradId
    \/ DerivePda
    \/ GetAccount
    \/ SliceData
    \/ Deserialize
    \/ FetchFailed
    \/ Complete

Spec == Init /\ [][Next]_vars

----------------------------------------------------------------------------
(* The padded-text codec on its own                                        *)

\* Characters of one, two, three and four bytes, and NUL.
CharSamples == {0, 65, 233, 8364, 128752}

\* Most characters of a sample string besides its run of "A".
MaxHead == 2

\* Most bytes after the prefix of a short sample slice.
MaxPayload == 2

SeqsUpTo(S, n) == UNION {[1..k -> S] : k \in 0..n}

\* Strings of at most 30 bytes: a run of "A" and then up to MaxHead sample
\* characters, so that characters of every width end at every offset up to
\* the capacity.
StringSamples ==
    { t \in { Repeat(65, k) \o h : k \in 0..MAX_LEN, h \in SeqsUpTo(CharSamples, MaxHead) } :
        Len(as_bytes(t)) <= MAX_LEN }

\* Slices of any content: shorter than a prefix, and a prefix (every byte of
\* it small or maximal) followed by a payload shorter and longer than it
\* declares, valid UTF-8 and not.
SliceSamples ==
    SeqsUpTo({0, 1, 255}, 3)
    \cup { <<b1, b2, b3, b4>> \o q :
             b1 \in {0, 1, 2, 3, 30, 31, 255}, b2 \in {0, 255}, b3 \in {0, 255},
             b4 \in {0, 255},
             q \in SeqsUpTo({0, 65, 195}, MaxPayload)
                     \cup {Repeat(65, MAX_LEN), Repeat(65, MAX_LEN - 1) \o <<195>>} }

TextInit ==
    /\ InitRequest
    /\ encoded = FALSE
    /\ result = Returned(<<>>)
    /\ \/ text_pc = "string" /\ text \in StringSamples /\ bytes = <<>>
       \/ text_pc = "slice" /\ text = <<>> /\ bytes \in SliceSamples

\* The producer writes the string into its padded slot.
EncodeText ==
    /\ text_pc = "string"
    /\ bytes' = PaddedEncode(text)
    /\ encoded' = TRUE
    /\ text_pc' = "slice"
    /\ UNCHANGED <<text, result, request_vars>>

\* Satellite::get_string_from_padded_bytes(&bytes)
DecodeText ==
    /\ text_pc = "slice"
    /\ result' = get_string_from_padded_bytes(bytes)
    /\ text_pc' = "decoded"
    /\ UNCHANGED <<text, bytes, encoded, request_vars>>

TextNext == EncodeText \/ DecodeText

TextSpec == TextInit /\ [][TextNext]_vars

----------------------------------------------------------------------------
(* Properties                                                              *)

\* The data fetched for the request in hand.
Data == account.val.data

FetchedOk == Fetched /\ account.ok

\* The 1-based position in the account data of the first byte of field n.
FieldStart(n) == DISCRIMINATOR_LEN + WidthOfFirst(n - 1) + 1

MANEUVER_FIELD == 14

STATUS_FIELD == 15

\* The data holds a maneuver_type or operation_status byte that is the tag
\* of no variant.
TagOutOfRange(data) ==
    \/ /\ Len(data) >= FieldStart(MANEUVER_FIELD)
       /\ data[FieldStart(MANEUVER_FIELD)] >= Len(ManeuverType)
    \/ /\ Len(data) >= FieldStart(STATUS_FIELD)
       /\ data[FieldStart(STATUS_FIELD)] >= Len(OperationStatus)

\* One of the six f64 fields of the data holds a NaN.
HoldsNaN(data) ==
    \E n \in 1..Len(Layout) :
        /\ Layout[n].kind = "f64"
        /\ Len(data) >= FieldStart(n) + 7
        /\ is_nan(SubSeq(data, FieldStart(n), FieldStart(n) + 7))

\* The data is the discriminator and exactly one record's worth of bytes.
ExactSize(data) == Len(data) = DISCRIMINATOR_LEN + LAYOUT_SIZE

\* C1: whenever one of the three path parameters does not parse, the handler
\* never gets past the parsing steps, makes no call of get_account, and the
\* only way it ends is with status 400.
C1_InvalidInputIs400WithoutFetch ==
    (pc # "idle" /\ ~ValidInput) =>
        /\ fetches = 0
        /\ pc \in { "parse_user_authority", "parse_registry_authority",
                    "parse_norad_id", "done" }
        /\ pc = "done" => response.status = BAD_REQUEST

\* C1 witness: both addresses parse, the numeric id does not, and the request
\* has ended with 400 without a fetch.
C1_Witness ==
    /\ pc = "done"
    /\ user_authority_str = ProgramIdStr
    /\ registry_authority_str = SystemProgramStr
    /\ norad_id_str = NotANumber
    /\ response.status = BAD_REQUEST
    /\ fetches = 0

\* C2 (as claimed): a failed fetch is answered with 404 exactly when the store
\* reported that no account exists, and with 500 for every other failure,
\* whatever its text.
C2_NotFoundIffMissing ==
    (pc = "done" /\ Fetched /\ ~account.ok) =>
        response.status = IF account.val.missing THEN NOT_FOUND
                          ELSE INTERNAL_SERVER_ERROR

\* C3 (as claimed): fetched data shorter than the discriminator plus the
\* layout ends the request with status 500, for every such length: never
\* without a status.
C3_ShortDataIs500 ==
    (FetchedOk /\ Len(Data) < DISCRIMINATOR_LEN + LAYOUT_SIZE /\ Ended) =>
        pc = "done" /\ response.status = INTERNAL_SERVER_ERROR

\* C4: a string of at most 30 bytes written into a padded slot (a slot of 34
\* bytes) is read back by get_string_from_padded_bytes exactly.
C4_PaddedRoundTrip ==
    /\ (text_pc = "slice" /\ encoded) => Len(bytes) = PADDED_LEN
    /\ (text_pc = "decoded" /\ encoded) => result = Returned(text)

\* C4 witness: a string that fills the 30 bytes and ends in a four-byte
\* character has been written and read back.
C4_Witness ==
    /\ text_pc = "decoded"
    /\ encoded
    /\ Len(as_bytes(text)) = MAX_LEN
    /\ text[Len(text)] = 128752
    /\ result.val = text

\* The length the prefix of a slice declares reaches past the slice's end
\* (4 + len > slice length), computed on the prefix bytes as numbers.
DeclaredPastEnd(b) ==
    \/ b[4] > 0
    \/ 4 + b[1] + 256 * b[2] + 65536 * b[3] > Len(b)

\* C5: get_string_from_padded_bytes fails on no slice; a slice shorter than
\* four bytes gives the empty string, and one whose declared length reaches
\* past its end gives the lossy decoding of all bytes after the prefix.
C5_NeverFails ==
    (text_pc = "decoded") =>
        /\ ~result.panic
        /\ Len(bytes) < 4 => result.val = <<>>
        /\ (Len(bytes) >= 4 /\ DeclaredPastEnd(bytes)) =>
               result.val = from_utf8_lossy(SubSeq(bytes, 5, Len(bytes)))

\* C5 witness: a slice whose prefix is the largest 32-bit value, followed by
\* bytes that are not valid UTF-8, has been decoded to the text of those
\* bytes.
C5_Witness ==
    /\ text_pc = "decoded"
    /\ ~encoded
    /\ bytes = <<255, 255, 255, 255, 65, 195>>
    /\ result = Returned(<<65, REPLACEMENT_CHARACTER>>)

\* C6: a fetched record with a maneuver_type or operation_status tag outside
\* its enum ends the request with status 500, never with 200.
C6_EnumTagOutOfRangeIs500 ==
    (FetchedOk /\ TagOutOfRange(Data) /\ Ended) =>
        pc = "done" /\ response.status = INTERNAL_SERVER_ERROR

\* C6 witness: a record of the exact size, well-formed but for the
\* maneuver_type tag 8, has been answered with 500.
C6_Witness ==
    /\ pc = "done"
    /\ FetchedOk
    /\ Data = Discriminator
                \o MkRecord(PaddedEncode(SentinelName), LeBytes(42, 8), F64One, 8, 0)
    /\ response.status = INTERNAL_SERVER_ERROR

\* C7 (as claimed): two requests that fail in different kinds are answered
\* with different statuses.  Stated for a request and the one before it, on
\* fetch errors whose text agrees with what the store reported.
C7_DistinctStatuses ==
    ( /\ pc = "done"
      /\ previous.any
      /\ previous.status # 0
      /\ Classified /\ previous.classified
      /\ FailureKind # "None" /\ previous.kind # "None"
      /\ FailureKind # previous.kind )
    => response.status # previous.status

\* C7 (amended): the failure kinds are surfaced as three statuses.  400 is
\* given for InvalidInput and for nothing else, NotFound is given 404, a
\* MalformedRecord that is answered is given 500, and 500 is given only for
\* TransportError and MalformedRecord, which share it.
C7_ThreeStatuses ==
    (pc = "done") =>
        /\ response.status = BAD_REQUEST <=> FailureKind = "InvalidInput"
        /\ FailureKind = "NotFound" => response.status = NOT_FOUND
        /\ FailureKind = "MalformedRecord" => response.status = INTERNAL_SERVER_ERROR
        /\ response.status = INTERNAL_SERVER_ERROR
               => FailureKind \in {"TransportError", "MalformedRecord"}

\* C7 witness: a malformed record is answered with 500 right after a
\* transport failure was answered with 500.
C7_Witness ==
    /\ pc = "done"
    /\ FailureKind = "MalformedRecord"
    /\ response.status = INTERNAL_SERVER_ERROR
    /\ previous.kind = "TransportError"
    /\ previous.status = INTERNAL_SERVER_ERROR

\* C8: a request calls get_account at most once; decoding is reached only
\* with the one call made and successful; a failed call ends the request with
\* an error status, nothing decoded.
C8_SingleFetch ==
    /\ fetches <= 1
    /\ pc = "deserialize" => (fetches = 1 /\ account.ok)
    /\ (Fetched /\ ~account.ok /\ pc # "match") =>
           /\ pc = "done"
           /\ response.status \in {NOT_FOUND, INTERNAL_SERVER_ERROR}
           /\ data_slice = <<>>
           /\ fetches = 1

\* C8 witness: a request whose one fetch timed out has ended with 500.
C8_Witness ==
    /\ pc = "done"
    /\ fetches = 1
    /\ ~account.ok
    /\ account.val.text = TimeoutText
    /\ response.status = INTERNAL_SERVER_ERROR

\* C9 (as claimed): behind the discriminator, the answer is 200 exactly when
\* the bytes are exactly one record's worth with both enum tags in range, and
\* bytes beyond the record are answered with 500.
C9_ExactSizeDecodes ==
    (FetchedOk /\ Len(Data) >= DISCRIMINATOR_LEN /\ Ended) =>
        /\ pc = "done"
        /\ response.status = OK <=> (ExactSize(Data) /\ ~TagOutOfRange(Data))
        /\ Len(Data) > DISCRIMINATOR_LEN + LAYOUT_SIZE
               => response.status = INTERNAL_SERVER_ERROR

\* C9 (amended): behind the discriminator, the answer is 200 exactly when the
\* bytes are exactly one record's worth (208 bytes) with both enum tags in
\* range and no NaN in the six f64 fields; bytes beyond the record are
\* answered with 500.
C9_ExactSizeDecodesUnlessNaN ==
    /\ LAYOUT_SIZE = 208
    /\ (FetchedOk /\ Len(Data) >= DISCRIMINATOR_LEN /\ Ended) =>
        /\ pc = "done"
        /\ response.status = OK
               <=> (ExactSize(Data) /\ ~TagOutOfRange(Data) /\ ~HoldsNaN(Data))
        /\ Len(Data) > DISCRIMINATOR_LEN + LAYOUT_SIZE
               => response.status = INTERNAL_SERVER_ERROR

\* C9 witness: the record named "Sentinel-1", Active, of the exact size, has
\* been answered with 200 and its clean name.
C9_Witness ==
    /\ pc = "done"
    /\ FetchedOk
    /\ Data = Discriminator \o BaseRecord
    /\ response.status = OK
    /\ response.body["name"] = SentinelName
    /\ response.body["operation_status"] = "Active"

\* C10 (as claimed): every 200 response carries the norad_id parsed from the
\* request path.
C10_NoradIdMatchesRequest ==
    (pc = "done" /\ response.status = OK) => response.body["norad_id"] = norad_id

====
